---- MODULE Spec2Model ----
(***************************************************************************)
(* Model of medallion/views/objects.py: the request-handling layer of the  *)
(* TAXII "Objects" resource (list GET/POST, single-object GET/DELETE) and  *)
(* the helper functions it is composed of.                                 *)
(*                                                                         *)
(* Python values are modelled as follows.                                  *)
(*   str            a TLA+ string (TLC evaluates Len, \o and SubSeq on it)  *)
(*   dict           a function whose DOMAIN is the set of keys             *)
(*   Optional[str]  <<>> for None, <<s>> for the string s                  *)
(*   return / raise a record with a "kind" field ("return", "Response",    *)
(*                  "ProcessingError", or the name of another exception)   *)
(***************************************************************************)
EXTENDS Integers, Sequences, FiniteSets, TLC

\* ------------------------------------------------------------------ bounds
MaxPageSize == 3        \* taxii_config["max_page_size"] ranges over 1..MaxPageSize
MaxIndex == 11          \* largest number written in a Range header (unit calls)
MaxReqIndex == 2        \* largest number written in a Range header (requests)
MaxTotal == 3           \* largest total_count the backend reports
MaxReturned == 2        \* most objects the backend returns in one page
MaxTime == 3            \* date_added timestamps range over 1..MaxTime
MaxManifest == 3        \* most manifest entries the backend returns
MaxContentLength == 4   \* the api-root's max_content_length

VARIABLES
    taxii_config,   \* current_app.taxii_config (process-wide, read-only)
    store,          \* what the backend has stored through add_objects
    op,             \* the function or endpoint that ran last
    request,        \* its inputs
    calls,          \* the backend data calls it made, in order
    outcome         \* what it returned or raised

vars == <<taxii_config, store, op, request, calls, outcome>>

\* ------------------------------------------------------------ Python values
None == <<>>
Some(s) == <<s>>

Return(v) == [kind |-> "return", value |-> v]

\* ProcessingError(message, status): exceptions.ProcessingError as raised here.
ProcessingError(message, status) ==
    [kind |-> "ProcessingError", message |-> message, status |-> status, headers |-> <<>>]

\* Any other exception type escaping a function.
Exception(name) == [kind |-> name]

Raised(r) == r.kind \notin {"return", "Response"}

\* dict.get(key, default) / headers.get(key, default)
Get(d, key, default) == IF key \in DOMAIN d THEN d[key] ELSE default

\* bool(x) of a dict or of None: an empty dict and None are both falsy.
Truthy(d) == DOMAIN d # {}

\* ------------------------------------------------------------------ strings
Digits == {"0", "1", "2", "3", "4", "5", "6", "7", "8", "9"}
DigitStr == <<"0", "1", "2", "3", "4", "5", "6", "7", "8", "9">>

Char(s, i) == SubSeq(s, i, i)

DigitVal(c) == CHOOSE d \in 0..9 : DigitStr[d + 1] = c

AllDigits(s) == Len(s) > 0 /\ \A i \in 1..Len(s) : Char(s, i) \in Digits

RECURSIVE ParseNat(_)
ParseNat(s) ==
    IF Len(s) = 0 THEN 0
    ELSE ParseNat(SubSeq(s, 1, Len(s) - 1)) * 10 + DigitVal(Char(s, Len(s)))

\* "{}".format(n) for an integer n
RECURSIVE FormatInt(_)
FormatInt(n) ==
    IF n < 0 THEN "-" \o FormatInt(0 - n)
    ELSE IF n < 10 THEN DigitStr[n + 1]
    ELSE FormatInt(n \div 10) \o DigitStr[(n % 10) + 1]

\* str.strip() restricted to the space character
RECURSIVE Strip(_)
Strip(s) ==
    IF Len(s) > 0 /\ Char(s, 1) = " " THEN Strip(SubSeq(s, 2, Len(s)))
    ELSE IF Len(s) > 0 /\ Char(s, Len(s)) = " " THEN Strip(SubSeq(s, 1, Len(s) - 1))
    ELSE s

\* int(s) for a str s: surrounding whitespace is ignored, one optional sign,
\* then decimal digits; anything else is a ValueError.  (Digit-group
\* underscores, which int also accepts, are not among the inputs tried.)
int(s) ==
    LET t == Strip(s)
        signed == Len(t) > 0 /\ Char(t, 1) \in {"+", "-"}
        body == IF signed THEN SubSeq(t, 2, Len(t)) ELSE t
    IN  IF ~AllDigits(body) THEN Exception("ValueError")
        ELSE IF signed /\ Char(t, 1) = "-" THEN Return(0 - ParseNat(body))
        ELSE Return(ParseNat(body))

\* s.replace(" ", "")
RECURSIVE RemoveSpaces(_)
RemoveSpaces(s) ==
    IF Len(s) = 0 THEN ""
    ELSE IF Len(s) = 1 THEN (IF s = " " THEN "" ELSE s)
    ELSE LET half == Len(s) \div 2
         IN  RemoveSpaces(SubSeq(s, 1, half)) \o RemoveSpaces(SubSeq(s, half + 1, Len(s)))

\* index of the first occurrence of the character c in s, 0 when there is none
Find(s, c) ==
    IF \E i \in 1..Len(s) : Char(s, i) = c
    THEN CHOOSE i \in 1..Len(s) : Char(s, i) = c /\ \A j \in 1..(i - 1) : Char(s, j) # c
    ELSE 0

\* s.split(",")
RECURSIVE Split(_)
Split(s) ==
    LET p == Find(s, ",")
    IN  IF p = 0 THEN <<s>>
        ELSE <<SubSeq(s, 1, p - 1)>> \o Split(SubSeq(s, p + 1, Len(s)))

StartsWith(s, prefix) == Len(s) >= Len(prefix) /\ SubSeq(s, 1, Len(prefix)) = prefix

\* --------------------------------------------------- collaborators' contract
\* The storage backend and the api-root check live outside this file; they are
\* modelled from their contract.
ApiRoots == {"trustgroup1"}

CollectionInfo(id, r, w) == [id |-> id, can_read |-> r, can_write |-> w]

Collections ==
    ("c-rw" :> CollectionInfo("c-rw", TRUE, TRUE)) @@
    ("c-r" :> CollectionInfo("c-r", TRUE, FALSE)) @@
    ("c-w" :> CollectionInfo("c-w", FALSE, TRUE)) @@
    ("c-none" :> CollectionInfo("c-none", FALSE, FALSE))

\* medallion_backend.get_collection: a CollectionInfo, or empty
get_collection(api_root, collection_id) ==
    IF api_root \in ApiRoots /\ collection_id \in DOMAIN Collections
    THEN Collections[collection_id]
    ELSE None

\* medallion_backend.get_api_root_information
get_api_root_information(api_root) ==
    IF api_root \in ApiRoots THEN [max_content_length |-> MaxContentLength] ELSE None

\* discovery.api_root_exists
api_root_exists(api_root) ==
    IF api_root \in ApiRoots THEN Return(None)
    ELSE ProcessingError("API root '" \o api_root \o "' not found", 404)

\* The Accept header is a media type and an optional version parameter.
MEDIA_TYPE_STIX == "application/vnd.oasis.stix+json"
MEDIA_TYPE_TAXII == "application/vnd.oasis.taxii+json"

AcceptValid(headers, media) ==
    LET accept == Get(headers, "Accept", "")
    IN  accept \in {media, media \o ";version=2.0"}

validate_stix_version_parameter_in_accept_header(headers) ==
    IF AcceptValid(headers, MEDIA_TYPE_STIX) THEN Return(None)
    ELSE ProcessingError("Media type in the Accept header is invalid or not found", 415)

validate_taxii_version_parameter_in_accept_header(headers) ==
    IF AcceptValid(headers, MEDIA_TYPE_TAXII) THEN Return(None)
    ELSE ProcessingError("Media type in the Accept header is invalid or not found", 415)

\* --------------------------------------------------------- access control
\* collection_info[key]: None and an empty dict cannot be subscripted by key
Subscriptable(d, key) == key \in DOMAIN d

permission_to_read(api_root, collection_id) ==
    LET collection_info == get_collection(api_root, collection_id)
    IN  IF ~Subscriptable(collection_info, "can_read") THEN Exception("TypeError")
        ELSE IF collection_info["can_read"] = FALSE
        THEN ProcessingError("Forbidden to read collection '" \o collection_id \o "'", 403)
        ELSE Return(None)

\* Faulty variant: the write permission never refused.
permission_to_write_skipped(api_root, collection_id) == Return(None)

permission_to_write(api_root, collection_id) ==
    LET collection_info == get_collection(api_root, collection_id)
    IN  IF ~Subscriptable(collection_info, "can_write") THEN Exception("TypeError")
        ELSE IF collection_info["can_write"] = FALSE
        THEN ProcessingError("Forbidden to write collection '" \o collection_id \o "'", 403)
        ELSE Return(None)

\* Faulty variant: the existence check left out (as it is, commented out, in
\* get_or_delete_object).
collection_exists_skipped(api_root, collection_id) == Return(None)

collection_exists(api_root, collection_id) ==
    IF ~Truthy(get_collection(api_root, collection_id))
    THEN ProcessingError("Collection '" \o collection_id \o "' not found", 404)
    ELSE Return(None)

\* Faulty variant: the individual tests before the joint one.
permission_to_read_and_write_swapped(api_root, collection_id) ==
    LET collection_info == get_collection(api_root, collection_id)
    IN  IF ~Subscriptable(collection_info, "can_read") THEN Exception("TypeError")
        ELSE IF collection_info["can_write"] = FALSE
        THEN ProcessingError("Forbidden to write collection '" \o collection_id \o "'", 403)
        ELSE IF collection_info["can_read"] = FALSE
        THEN ProcessingError("Forbidden to read collection '" \o collection_id \o "'", 403)
        ELSE IF collection_info["can_read"] = FALSE /\ collection_info["can_write"] = FALSE
        THEN ProcessingError("Collection '" \o collection_id \o "' not found", 404)
        ELSE Return(None)

permission_to_read_and_write(api_root, collection_id) ==
    LET collection_info == get_collection(api_root, collection_id)
    IN  IF ~Subscriptable(collection_info, "can_read") THEN Exception("TypeError")
        ELSE IF collection_info["can_read"] = FALSE /\ collection_info["can_write"] = FALSE
        THEN ProcessingError("Collection '" \o collection_id \o "' not found", 404)
        ELSE IF collection_info["can_write"] = FALSE
        THEN ProcessingError("Forbidden to write collection '" \o collection_id \o "'", 403)
        ELSE IF collection_info["can_read"] = FALSE
        THEN ProcessingError("Forbidden to read collection '" \o collection_id \o "'", 403)
        ELSE Return(None)

\* ------------------------------------------------------ content negotiation
\* re.match(r"^application/vnd\.oasis\.stix\+json(;version=(\d\.\d))?$", item):
\* None, or the match's groups (an optional group that took no part is None).
VersionParam == ";version="

ContentTypeMatch(item) ==
    LET rest == SubSeq(item, Len(MEDIA_TYPE_STIX) + 1, Len(item))
        ver == SubSeq(rest, Len(VersionParam) + 1, Len(rest))
    IN  IF ~StartsWith(item, MEDIA_TYPE_STIX) THEN None
        ELSE IF rest = "" THEN Some(<<None, None>>)
        ELSE IF /\ StartsWith(rest, VersionParam)
                /\ Len(ver) = 3
                /\ Char(ver, 1) \in Digits
                /\ Char(ver, 2) = "."
                /\ Char(ver, 3) \in Digits
        THEN Some(<<Some(rest), Some(ver)>>)
        ELSE None

\* str(x) of an Optional[str], as "{}".format(x) writes it
FormatOptional(x) == IF x = None THEN "None" ELSE x[1]

\* The loop of validate_version_parameter_in_content_type_header over the
\* tokens from position i on.
RECURSIVE ContentTypeLoop(_, _)
ContentTypeLoop(content_type, i) ==
    IF i > Len(content_type)
    THEN ProcessingError("Media type in the Content-Type header is invalid or not found", 415)
    ELSE LET result == ContentTypeMatch(content_type[i])
         IN  IF result = None THEN ContentTypeLoop(content_type, i + 1)
             ELSE LET groups == result[1]
                      version_str == groups[2]
                  IN  IF Len(groups) >= 2 /\ version_str # Some("2.0")
                      THEN ProcessingError("The server does not support version "
                                           \o FormatOptional(version_str), 415)
                      ELSE Return(None)

validate_version_parameter_in_content_type_header(headers) ==
    LET content_type == Split(RemoveSpaces(Get(headers, "Content-Type", "")))
    IN  ContentTypeLoop(content_type, 1)

\* ------------------------------------------------------------ request body
validate_size_in_request_body(api_root, headers) ==
    LET info == get_api_root_information(api_root)
        content_length == int(Get(headers, "Content-Length", ""))
    IN  IF ~Subscriptable(info, "max_content_length") THEN Exception("TypeError")
        ELSE IF Raised(content_length)
        THEN ProcessingError("The server did not understand the request or headers", 400)
        ELSE IF content_length.value > info["max_content_length"] \/ content_length.value <= 0
        THEN ProcessingError("Content-Length header not valid or exceeds maximum!", 413)
        ELSE Return(None)

\* ------------------------------------------------------------- pagination
\* re.match(r"^items[= ](\d+)-(\d+)$", value): None, or the two groups.
\* (Header values are ASCII without line breaks, so \d is 0-9 and $ is the end.)
RangeMatch(value) ==
    LET rest == SubSeq(value, 7, Len(value))
        dash == Find(rest, "-")
        first == SubSeq(rest, 1, dash - 1)
        second == SubSeq(rest, dash + 1, Len(rest))
    IN  IF /\ StartsWith(value, "items")
           /\ Len(value) >= 6
           /\ Char(value, 6) \in {"=", " "}
           /\ dash > 0
           /\ AllDigits(first)
           /\ AllDigits(second)
        THEN Some(<<first, second>>)
        ELSE None

\* Faulty variant: the span is not clamped to max_page_size.
get_range_request_from_headers_noclamp(headers, config) ==
    IF "Range" \in DOMAIN headers
    THEN LET matches == RangeMatch(headers["Range"])
         IN  IF matches = None THEN ProcessingError("Bad Range header supplied", 400)
             ELSE Return(<<int(matches[1][1]).value, int(matches[1][2]).value>>)
    ELSE Return(<<0, config["max_page_size"] - 1>>)

get_range_request_from_headers(headers, config) ==
    IF "Range" \in DOMAIN headers
    THEN LET matches == RangeMatch(headers["Range"])
         IN  IF matches = None
             THEN ProcessingError("Bad Range header supplied", 400)   \* AttributeError
             ELSE LET start == int(matches[1][1])
                      end == int(matches[1][2])
                  IN  IF Raised(start) \/ Raised(end)
                      THEN ProcessingError("Bad Range header supplied", 400)   \* ValueError
                      ELSE LET start_index == start.value
                               end_index == end.value
                           IN  IF (end_index - start_index) + 1 > config["max_page_size"]
                               THEN Return(<<start_index,
                                             start_index + (config["max_page_size"] - 1)>>)
                               ELSE Return(<<start_index, end_index>>)
    ELSE Return(<<0, config["max_page_size"] - 1>>)

validate_limit_parameter(args, config) ==
    LET max_page == config["max_page_size"]
        limit == IF "limit" \in DOMAIN args THEN int(args["limit"]) ELSE Return(max_page)
    IN  IF Raised(limit)
        THEN ProcessingError("The server did not understand the request or filter parameters", 400)
        ELSE IF limit.value <= 0
        THEN ProcessingError("The limit parameter cannot be negative or zero", 400)
        ELSE IF limit.value > max_page THEN Return(max_page)
        ELSE Return(limit.value)

AcceptRanges == "Accept-Ranges" :> "items"

\* Faulty variant: 200 or 206 decided by the counts alone, whether or not a
\* Range header was sent.
get_response_status_and_headers_norange(start_index, total_count, objects, headers, config) ==
    IF start_index >= total_count /\ total_count > 0
    THEN [ProcessingError("The requested range is outside the size of the result set", 416)
            EXCEPT !.headers = AcceptRanges @@
                               ("Content-Range" :> ("items */" \o FormatInt(total_count)))]
    ELSE IF total_count < config["max_page_size"]
    THEN Return(<<200, AcceptRanges>>)
    ELSE LET end_index == IF Len(objects) = 0 THEN start_index
                          ELSE start_index + (Len(objects) - 1)
         IN  Return(<<206, AcceptRanges @@
                           ("Content-Range" :> ("items " \o FormatInt(start_index) \o "-"
                                \o FormatInt(end_index) \o "/" \o FormatInt(total_count)))>>)

get_response_status_and_headers(start_index, total_count, objects, headers, config) ==
    IF start_index >= total_count /\ total_count > 0
    THEN [ProcessingError("The requested range is outside the size of the result set", 416)
            EXCEPT !.headers = AcceptRanges @@
                               ("Content-Range" :> ("items */" \o FormatInt(total_count)))]
    ELSE IF "Range" \notin DOMAIN headers /\ total_count < config["max_page_size"]
    THEN Return(<<200, AcceptRanges>>)
    ELSE LET end_index == IF Len(objects) = 0 THEN start_index
                          ELSE start_index + (Len(objects) - 1)
         IN  Return(<<206, AcceptRanges @@
                           ("Content-Range" :> ("items " \o FormatInt(start_index) \o "-"
                                \o FormatInt(end_index) \o "/" \o FormatInt(total_count)))>>)

\* ---------------------------------------------------------- manifest headers
\* sorted(times)
RECURSIVE Insert(_, _)
Insert(x, s) ==
    IF s = <<>> THEN <<x>>
    ELSE IF x <= Head(s) THEN <<x>> \o s
    ELSE <<Head(s)>> \o Insert(x, Tail(s))

RECURSIVE sorted(_)
sorted(s) == IF s = <<>> THEN <<>> ELSE Insert(Head(s), sorted(Tail(s)))

\* The backend calls of the list GET, with their arguments.
get_objects_call(api_root, collection_id, args, start, end, answer) ==
    [fn |-> "get_objects",
     args |-> <<api_root, collection_id, args, <<"id", "type", "version">>, start, end>>,
     result |-> answer]

get_object_manifest_call(api_root, collection_id, args, start, end, answer) ==
    [fn |-> "get_object_manifest",
     args |-> <<api_root, collection_id, args, <<"id">>, start, end>>,
     result |-> answer]

\* manifest_answer is what the backend's get_object_manifest did: it returned
\* a pair whose second component is the manifest, or it raised.
\* Faulty variant: first and last entry as returned, without sorting.
get_custom_headers_unsorted(headers, manifest_answer) ==
    IF Raised(manifest_answer)
    THEN ProcessingError("Unable to build response headers", 400)
    ELSE LET manifest == manifest_answer.value[2]
             times == [i \in 1..Len(manifest) |-> manifest[i]["date_added"]]
         IN  IF Len(manifest) > 0
             THEN Return(("X-TAXII-Date-Added-First" :> times[1]) @@
                         ("X-TAXII-Date-Added-Last" :> times[Len(times)]) @@ headers)
             ELSE Return(headers)

get_custom_headers(headers, manifest_answer) ==
    IF Raised(manifest_answer)
    THEN ProcessingError("Unable to build response headers", 400)
    ELSE LET manifest == manifest_answer.value[2]
         IN  IF Len(manifest) > 0
             THEN LET times == sorted([i \in 1..Len(manifest) |-> manifest[i]["date_added"]])
                  IN  IF Len(times) > 0
                      THEN Return(("X-TAXII-Date-Added-First" :> times[1]) @@
                                  ("X-TAXII-Date-Added-Last" :> times[Len(times)]) @@ headers)
                      ELSE Return(headers)
             ELSE Return(headers)

\* ---------------------------------------------------------------- endpoints
Response(status, headers, mimetype, response) ==
    [kind |-> "Response", status |-> status, headers |-> headers,
     mimetype |-> mimetype, response |-> response]

\* What a handler did: how it ended and the backend data calls it made.
Ended(result, made) == [outcome |-> result, calls |-> made]

\* request.get_json(force=True): the parsed body, or werkzeug's BadRequest
get_json(body) ==
    IF body.json THEN Return(body.bundle)
    ELSE [kind |-> "BadRequest", status |-> 400]

\* common.get_timestamp()
get_timestamp == "now"

add_objects_call(api_root, collection_id, bundle, request_time) ==
    [fn |-> "add_objects", args |-> <<api_root, collection_id, bundle, request_time>>,
     result |-> [status |-> "complete", total_count |-> Cardinality(bundle)]]

get_object_call(api_root, collection_id, object_id, args, limit, answer) ==
    [fn |-> "get_object",
     args |-> <<api_root, collection_id, object_id, args, <<"version", "spec_version">>, limit>>,
     result |-> answer]

delete_object_call(api_root, collection_id, object_id, args) ==
    [fn |-> "delete_object",
     args |-> <<api_root, collection_id, object_id, args, <<"version", "spec_version">>>>,
     result |-> None]

\* get_or_add_objects, request.method == "GET".  answers.get_objects and
\* answers.get_object_manifest are what the backend answers when asked.
list_get(api_root, collection_id, req, config, answers) ==
    LET accept == validate_stix_version_parameter_in_accept_header(req.headers)
        root == api_root_exists(api_root)
        exists == collection_exists(api_root, collection_id)
        permitted == permission_to_read(api_root, collection_id)
        range == get_range_request_from_headers(req.headers, config)
    IN  IF Raised(accept) THEN Ended(accept, <<>>)
        ELSE IF Raised(root) THEN Ended(root, <<>>)
        ELSE IF Raised(exists) THEN Ended(exists, <<>>)
        ELSE IF Raised(permitted) THEN Ended(permitted, <<>>)
        ELSE IF Raised(range) THEN Ended(range, <<>>)
        ELSE
        LET start_index == range.value[1]
            end_index == range.value[2]
            total_count == answers.get_objects[1]
            objects == answers.get_objects[2]
            query == get_objects_call(api_root, collection_id, req.args,
                                      start_index, end_index, answers.get_objects)
        IN  IF Truthy(objects)
            THEN LET sh == get_response_status_and_headers(
                               start_index, total_count, objects["objects"],
                               req.headers, config)
                     manifest == get_object_manifest_call(
                                     api_root, collection_id, req.args,
                                     start_index, end_index, answers.get_object_manifest)
                     headers == get_custom_headers(sh.value[2], answers.get_object_manifest)
                 IN  IF Raised(sh) THEN Ended(sh, <<query>>)
                     ELSE IF Raised(headers) THEN Ended(headers, <<query, manifest>>)
                     ELSE Ended(Response(sh.value[1], headers.value, MEDIA_TYPE_STIX, objects),
                                <<query, manifest>>)
            ELSE Ended(ProcessingError("Collection '" \o collection_id
                                       \o "' has no objects available", 404),
                       <<query>>)

\* get_or_add_objects, request.method == "POST"
list_post(api_root, collection_id, req, config, answers) ==
    LET request_time == get_timestamp
        accept == validate_taxii_version_parameter_in_accept_header(req.headers)
        ctype == validate_version_parameter_in_content_type_header(req.headers)
        root == api_root_exists(api_root)
        exists == collection_exists(api_root, collection_id)
        permitted == permission_to_write(api_root, collection_id)
        size == validate_size_in_request_body(api_root, req.headers)
        body == get_json(req.body)
    IN  IF Raised(accept) THEN Ended(accept, <<>>)
        ELSE IF Raised(ctype) THEN Ended(ctype, <<>>)
        ELSE IF Raised(root) THEN Ended(root, <<>>)
        ELSE IF Raised(exists) THEN Ended(exists, <<>>)
        ELSE IF Raised(permitted) THEN Ended(permitted, <<>>)
        ELSE IF Raised(size) THEN Ended(size, <<>>)
        ELSE IF Raised(body) THEN Ended(body, <<>>)
        ELSE LET added == add_objects_call(api_root, collection_id, body.value, request_time)
             IN  Ended(Response(202, None, MEDIA_TYPE_TAXII, added.result), <<added>>)

get_or_add_objects(api_root, collection_id, req, config, answers) ==
    IF req.method = "GET" THEN list_get(api_root, collection_id, req, config, answers)
    ELSE list_post(api_root, collection_id, req, config, answers)

\* get_or_delete_object, the view of the single-object route.  (In the source
\* its def and route decorator are indented into the body of
\* get_or_add_objects, after that function's two returning branches; the model
\* takes it as the registered view its decorator declares.)  The existence
\* checks and the DELETE permission check are commented out in the source.
get_or_delete_object(api_root, collection_id, object_id, req, config, answers) ==
    IF req.method = "GET"
    THEN LET permitted == permission_to_read(api_root, collection_id)
             limit == validate_limit_parameter(req.args, config)
             objects == answers.get_object[1]
             headers == answers.get_object[2]
             query == get_object_call(api_root, collection_id, object_id, req.args,
                                      limit.value, answers.get_object)
         IN  IF Raised(permitted) THEN Ended(permitted, <<>>)
             ELSE IF Raised(limit) THEN Ended(limit, <<>>)
             ELSE IF Len(objects) > 0 \/ Truthy(req.args)
             THEN Ended(Response(200, headers, MEDIA_TYPE_STIX, objects), <<query>>)
             ELSE Ended(ProcessingError("Object '" \o object_id \o "' not found", 404),
                        <<query>>)
    ELSE LET deleted == delete_object_call(api_root, collection_id, object_id, req.args)
         IN  Ended(Response(200, None, MEDIA_TYPE_STIX, None), <<deleted>>)

\* ------------------------------------------------------------------ backend
ObjectIds == {"o1"}

\* What add_objects and delete_object do to the backend's stored objects.
ApplyCall(st, c) ==
    IF c.fn = "add_objects" /\ c.args[2] \in DOMAIN st
    THEN [st EXCEPT ![c.args[2]] = @ \cup c.args[3]]
    ELSE IF c.fn = "delete_object" /\ c.args[2] \in DOMAIN st
    THEN [st EXCEPT ![c.args[2]] = @ \ {c.args[3]}]
    ELSE st

RECURSIVE ApplyCalls(_, _)
ApplyCalls(st, cs) ==
    IF cs = <<>> THEN st ELSE ApplyCalls(ApplyCall(st, Head(cs)), Tail(cs))

ManifestEntry(t) == [id |-> "o1", date_added |-> t, version |-> "v", media_type |-> "m"]

Manifests ==
    UNION {[1..n -> {ManifestEntry(t) : t \in 1..MaxTime}] : n \in 0..MaxManifest}

\* get_object_manifest returns (count, manifest) or fails
ManifestAnswers ==
    {Exception("BackendError")} \cup {Return(<<Len(m), m>>) : m \in Manifests}

\* get_objects returns (total_count, ObjectSet); the ObjectSet may be absent
ObjectsAnswers ==
    {<<t, None>> : t \in 0..MaxTotal} \cup
    UNION {{<<t, [objects |-> [i \in 1..n |-> i]]>> : n \in {k \in 0..MaxReturned : k <= t}} :
           t \in 0..MaxTotal}

\* get_object returns (objects, headers)
ObjectAnswers ==
    {<<objs, hdrs>> : objs \in {<<>>, <<"o1">>},
                      hdrs \in {None, "X-TAXII-Date-Added-First" :> 1}}

\* The manifest answers tried in whole requests: a failure, an empty manifest,
\* one entry, and two entries out of order.
RequestManifestAnswers ==
    {Exception("BackendError"),
     Return(<<0, <<>>>>),
     Return(<<1, <<ManifestEntry(MaxTime)>>>>),
     Return(<<2, <<ManifestEntry(MaxTime), ManifestEntry(1)>>>>)}

NoAnswers ==
    [get_objects |-> <<0, None>>,
     get_object_manifest |-> Exception("BackendError"),
     get_object |-> <<(<<>>), None>>]

Asked(h, fn) == \E i \in 1..Len(h.calls) : h.calls[i].fn = fn

\* ------------------------------------------------------------------- inputs
\* dicts with at most the key k, its value drawn from vals
Optional(k, vals) == {None} \cup {k :> v : v \in vals}

NumStrs(max) == {FormatInt(n) : n \in 0..max}

RangeValues(max) ==
    {"items" \o sep \o a \o "-" \o b :
        sep \in {"=", " "}, a \in NumStrs(max), b \in NumStrs(max)}

MalformedRanges ==
    {"", "items", "items=", "items=5", "items=5-", "items=-5", "items:0-1",
     "bytes=0-1", "items=0-1,2-3", "items=a-b", " items=0-1", "items=0-1 ",
     "items= 0-1", "items=0--1", "Items=0-1", "items=0-1x", "items=+0-1"}

LeadingZeroRanges == {"items=007-08", "items=00-00", "items 09-011"}

UnitRangeHeaders ==
    Optional("Range", RangeValues(MaxIndex) \cup MalformedRanges \cup LeadingZeroRanges)

ContentTypeTokens ==
    {MEDIA_TYPE_STIX,
     MEDIA_TYPE_STIX \o ";version=2.0",
     MEDIA_TYPE_STIX \o ";version=2.1",
     MEDIA_TYPE_STIX \o "; version=2.0",
     MEDIA_TYPE_STIX \o ";version=20",
     MEDIA_TYPE_STIX \o ";version=2.0.1",
     MEDIA_TYPE_STIX \o ";charset=utf-8",
     MEDIA_TYPE_STIX \o "x",
     MEDIA_TYPE_TAXII \o ";version=2.0",
     "application/json",
     ""}

UnitContentTypeHeaders ==
    Optional("Content-Type",
             ContentTypeTokens \cup
             {a \o sep \o b : a \in ContentTypeTokens, b \in ContentTypeTokens,
                              sep \in {",", ", "}})

CollectionIds == DOMAIN Collections \cup {"c-missing"}
RootIds == ApiRoots \cup {"no-such-root"}

QueryArgs ==
    {None, "match[type]" :> "indicator", "match[version]" :> "all"}

ObjectQueryArgs ==
    {None, "match[version]" :> "all"} \cup
    {"limit" :> v : v \in {"0", "-1", "x", FormatInt(1), FormatInt(MaxPageSize + 1)}}

AcceptHeaders ==
    Optional("Accept", {MEDIA_TYPE_STIX \o ";version=2.0", MEDIA_TYPE_TAXII \o ";version=2.0"})

GetHeaders ==
    {a @@ r : a \in AcceptHeaders,
              r \in Optional("Range", RangeValues(MaxReqIndex) \cup {"bytes=0-1"})}

PostHeaders ==
    {a @@ t @@ l :
        a \in AcceptHeaders,
        t \in Optional("Content-Type", {MEDIA_TYPE_STIX, MEDIA_TYPE_STIX \o ";version=2.0",
                                        MEDIA_TYPE_STIX \o ";version=2.1"}),
        l \in Optional("Content-Length",
                       {"abc", "-1", "+1", "0", FormatInt(MaxContentLength),
                        FormatInt(MaxContentLength + 1)})}

Bodies == {[json |-> FALSE]} \cup {[json |-> TRUE, bundle |-> b] : b \in SUBSET ObjectIds}

Request(method, headers, args, body) ==
    [method |-> method, headers |-> headers, args |-> args, body |-> body]

\* ------------------------------------------------------------ state machine
Init ==
    /\ taxii_config \in {[max_page_size |-> n] : n \in 1..MaxPageSize}
    /\ store = [c \in DOMAIN Collections |-> {}]
    /\ op = "start"
    /\ request = None
    /\ calls = <<>>
    /\ outcome = Return(None)

\* Requests are handled one at a time, each as one synchronous unit of work:
\* nothing is in progress when a request or a call starts.
Idle == op = "start"

\* A handler ran on `target` with request `req` and ended as `h`.
Handled(name, target, req, h) ==
    /\ op' = name
    /\ request' = target @@ req
    /\ calls' = h.calls
    /\ outcome' = h.outcome
    /\ store' = ApplyCalls(store, h.calls)
    /\ UNCHANGED taxii_config

\* GET /<api_root>/collections/<collection_id>/objects/
ListGet ==
    /\ Idle
    /\ \E api_root \in RootIds, collection_id \in CollectionIds,
       headers \in GetHeaders, args \in QueryArgs :
        LET req == Request("GET", headers, args, None)
            run(answers) == get_or_add_objects(api_root, collection_id, req,
                                               taxii_config, answers)
        IN  \E objs \in IF Asked(run(NoAnswers), "get_objects")
                        THEN ObjectsAnswers ELSE {NoAnswers.get_objects} :
            LET first == [NoAnswers EXCEPT !.get_objects = objs]
            IN  \E man \in IF Asked(run(first), "get_object_manifest")
                           THEN RequestManifestAnswers
                           ELSE {NoAnswers.get_object_manifest} :
                    Handled("GET objects",
                            [api_root |-> api_root, collection_id |-> collection_id],
                            req, run([first EXCEPT !.get_object_manifest = man]))

\* POST /<api_root>/collections/<collection_id>/objects/
ListPost ==
    /\ Idle
    /\ \E api_root \in RootIds, collection_id \in CollectionIds,
       headers \in PostHeaders, body \in Bodies :
        LET req == Request("POST", headers, None, body)
        IN  Handled("POST objects",
                    [api_root |-> api_root, collection_id |-> collection_id],
                    req,
                    get_or_add_objects(api_root, collection_id, req, taxii_config, NoAnswers))

\* GET /<api_root>/collections/<collection_id>/objects/<object_id>/
ObjectGet ==
    /\ Idle
    /\ \E api_root \in RootIds, collection_id \in CollectionIds, object_id \in ObjectIds,
       headers \in AcceptHeaders, args \in ObjectQueryArgs :
        LET req == Request("GET", headers, args, None)
            run(answers) == get_or_delete_object(api_root, collection_id, object_id, req,
                                                 taxii_config, answers)
        IN  \E obj \in IF Asked(run(NoAnswers), "get_object")
                       THEN ObjectAnswers ELSE {NoAnswers.get_object} :
                Handled("GET object",
                        [api_root |-> api_root, collection_id |-> collection_id,
                         object_id |-> object_id],
                        req, run([NoAnswers EXCEPT !.get_object = obj]))

\* DELETE /<api_root>/collections/<collection_id>/objects/<object_id>/
ObjectDelete ==
    /\ Idle
    /\ \E api_root \in RootIds, collection_id \in CollectionIds, object_id \in ObjectIds,
       headers \in AcceptHeaders, args \in ObjectQueryArgs :
        LET req == Request("DELETE", headers, args, None)
        IN  Handled("DELETE object",
                    [api_root |-> api_root, collection_id |-> collection_id,
                     object_id |-> object_id],
                    req,
                    get_or_delete_object(api_root, collection_id, object_id, req,
                                         taxii_config, NoAnswers))

\* The response or the error reaches the request boundary; the request is over.
Deliver ==
    /\ ~Idle
    /\ op' = "start"
    /\ request' = None
    /\ calls' = <<>>
    /\ outcome' = Return(None)
    /\ UNCHANGED <<taxii_config, store>>

Next == ListGet \/ ListPost \/ ObjectGet \/ ObjectDelete \/ Deliver

Spec == Init /\ [][Next]_vars

\* ------------------------------------------- the helper functions on their own
\* A helper ran on the inputs `inputs` and returned or raised `result`.
Applied(name, inputs, result) ==
    /\ op' = name
    /\ request' = inputs
    /\ outcome' = result
    /\ calls' = <<>>
    /\ UNCHANGED <<taxii_config, store>>

ParseRange ==
    /\ Idle
    /\ \E headers \in UnitRangeHeaders :
        Applied("get_range_request_from_headers", [headers |-> headers],
                get_range_request_from_headers(headers, taxii_config))

ComputeStatus ==
    /\ Idle
    /\ \E start_index \in 0..MaxIndex, total_count \in 0..MaxTotal, n \in 0..MaxReturned,
       headers \in Optional("Range", {"items=0-1"}) :
        LET objects == [i \in 1..n |-> i]
        IN  Applied("get_response_status_and_headers",
                    [start_index |-> start_index, total_count |-> total_count,
                     objects |-> objects, headers |-> headers],
                    get_response_status_and_headers(start_index, total_count, objects,
                                                    headers, taxii_config))

NegotiateContentType ==
    /\ Idle
    /\ \E headers \in UnitContentTypeHeaders :
        Applied("validate_version_parameter_in_content_type_header",
                [headers |-> headers],
                validate_version_parameter_in_content_type_header(headers))

CheckReadAndWrite ==
    /\ Idle
    /\ \E api_root \in ApiRoots, collection_id \in DOMAIN Collections :
        Applied("permission_to_read_and_write",
                [api_root |-> api_root, collection_id |-> collection_id],
                permission_to_read_and_write(api_root, collection_id))

BuildManifestHeaders ==
    /\ Idle
    /\ \E headers \in {AcceptRanges, AcceptRanges @@ ("Content-Range" :> "items 0-0/1")},
       answer \in ManifestAnswers :
        Applied("get_custom_headers", [headers |-> headers, manifest |-> answer],
                get_custom_headers(headers, answer))

NextUnit ==
    ParseRange \/ ComputeStatus \/ NegotiateContentType \/ CheckReadAndWrite
    \/ BuildManifestHeaders \/ Deliver

SpecUnit == Init /\ [][NextUnit]_vars

\* ============================================================ properties
\* Vocabulary of the properties, stated without the parsing code above.

\* value is "items", then "=" or a space, then <digits>-<digits>
WellFormedRange(value) ==
    \E sep \in {"=", " "}, dash \in 1..Len(value) :
        /\ Char(value, dash) = "-"
        /\ AllDigits(SubSeq(value, 7, dash - 1))
        /\ AllDigits(SubSeq(value, dash + 1, Len(value)))
        /\ value = "items" \o sep \o SubSeq(value, 7, Len(value))

RangeStart(value) ==
    LET dash == CHOOSE d \in 1..Len(value) : Char(value, d) = "-"
    IN  ParseNat(SubSeq(value, 7, dash - 1))

RangeEnd(value) ==
    LET dash == CHOOSE d \in 1..Len(value) : Char(value, d) = "-"
    IN  ParseNat(SubSeq(value, dash + 1, Len(value)))

IsError(result, status) == result.kind = "ProcessingError" /\ result.status = status

Min(S) == CHOOSE x \in S : \A y \in S : x <= y
Max(S) == CHOOSE x \in S : \A y \in S : x >= y

CallsOf(cs, fn) == {i \in 1..Len(cs) : cs[i].fn = fn}

\* ---------------------------------------------------------------------- C1
\* C1: get_response_status_and_headers yields exactly one of three outcomes,
\* chosen in this order: 416 with Content-Range "items */total" when
\* start_index >= total_count > 0; else 200 with exactly {Accept-Ranges: items}
\* when no Range header was sent and total_count < max_page_size; else 206 with
\* Content-Range "items start-end/total", end = start + returned_count - 1 (or
\* start when nothing was returned).  With the same indices and counts, 200 and
\* 206 differ only by whether a Range header was sent.
C1_StatusAndHeaders ==
    op = "get_response_status_and_headers" =>
        LET start == request.start_index
            total == request.total_count
            returned == Len(request.objects)
            had_range == "Range" \in DOMAIN request.headers
            end == IF returned = 0 THEN start ELSE start + returned - 1
        IN  IF start >= total /\ total > 0
            THEN /\ IsError(outcome, 416)
                 /\ outcome.headers = ("Accept-Ranges" :> "items") @@
                        ("Content-Range" :> ("items */" \o FormatInt(total)))
            ELSE IF ~had_range /\ total < taxii_config["max_page_size"]
            THEN outcome = Return(<<200, "Accept-Ranges" :> "items">>)
            ELSE outcome = Return(<<206, ("Accept-Ranges" :> "items") @@
                        ("Content-Range" :> ("items " \o FormatInt(start) \o "-"
                            \o FormatInt(end) \o "/" \o FormatInt(total)))>>)

\* A full result set that fits one page, answered 206 because a Range header
\* was sent.
C1_Witness ==
    /\ op = "get_response_status_and_headers"
    /\ "Range" \in DOMAIN request.headers
    /\ request.total_count < taxii_config["max_page_size"]
    /\ request.total_count = 2
    /\ Len(request.objects) = 2
    /\ outcome = Return(<<206, ("Accept-Ranges" :> "items") @@
                               ("Content-Range" :> "items 0-1/2")>>)

\* ---------------------------------------------------------------------- C2
\* C2: over the comma-separated tokens of Content-Type, the first token that
\* matches application/vnd.oasis.stix+json[;version=D.D] decides: no version
\* parameter or version=2.0 is accepted, any other version fails with 415, and
\* a header with no matching token (or no header) fails with 415.
C2_ContentTypeNegotiation ==
    op = "validate_version_parameter_in_content_type_header" =>
        LET tokens == Split(RemoveSpaces(Get(request.headers, "Content-Type", "")))
            version(t) == SubSeq(t, Len(MEDIA_TYPE_STIX) + Len(";version=") + 1, Len(t))
            bare(t) == t = MEDIA_TYPE_STIX
            versioned(t) ==
                \E a \in Digits, b \in Digits :
                    t = MEDIA_TYPE_STIX \o ";version=" \o a \o "." \o b
            matching == {i \in 1..Len(tokens) : bare(tokens[i]) \/ versioned(tokens[i])}
        IN  IF matching = {} THEN IsError(outcome, 415)
            ELSE LET t == tokens[Min(matching)]
                 IN  IF bare(t) \/ version(t) = "2.0"
                     THEN outcome = Return(None)
                     ELSE IsError(outcome, 415)

\* ---------------------------------------------------------------------- C4
\* C4: every RangeRequest (start_index, end_index) that
\* get_range_request_from_headers returns satisfies end_index >= start_index
\* and end_index - start_index + 1 <= max_page_size.
C4_RangeRequestInvariant ==
    (op = "get_range_request_from_headers" /\ outcome.kind = "return") =>
        LET start_index == outcome.value[1]
            end_index == outcome.value[2]
        IN  /\ end_index >= start_index
            /\ end_index - start_index + 1 <= taxii_config["max_page_size"]

\* ---------------------------------------------------------------------- C5
\* C5: get_range_request_from_headers returns (0, max_page_size - 1) when no
\* Range header is sent; fails with 400 when the header is not "items", "=" or
\* a space, <digits>-<digits>; returns (start, end) unchanged when the span
\* end - start + 1 is at most max_page_size; and otherwise returns
\* (start, start + max_page_size - 1) without an error.  The start index is
\* never altered.
C5_ParseRange ==
    op = "get_range_request_from_headers" =>
        LET max_page_size == taxii_config["max_page_size"]
        IN  IF "Range" \notin DOMAIN request.headers
            THEN outcome = Return(<<0, max_page_size - 1>>)
            ELSE LET value == request.headers["Range"]
                 IN  IF ~WellFormedRange(value) THEN IsError(outcome, 400)
                     ELSE IF RangeEnd(value) - RangeStart(value) + 1 <= max_page_size
                     THEN outcome = Return(<<RangeStart(value), RangeEnd(value)>>)
                     ELSE outcome = Return(<<RangeStart(value),
                                             RangeStart(value) + max_page_size - 1>>)

\* "items=5-9" with max_page_size 3 is clamped to (5, 7).
C5_Witness ==
    /\ op = "get_range_request_from_headers"
    /\ taxii_config["max_page_size"] = 3
    /\ "Range" \in DOMAIN request.headers
    /\ request.headers["Range"] = "items=5-9"
    /\ outcome = Return(<<5, 7>>)

\* ---------------------------------------------------------------------- C6
\* C6: permission_to_read_and_write on an existing collection: both flags false
\* fails with 404 (never 403); can_write false with can_read true fails with
\* 403 (write); can_read false with can_write true fails with 403 (read); both
\* true passes.
C6_ReadAndWrite ==
    op = "permission_to_read_and_write" =>
        LET info == Collections[request.collection_id]
            quoted == "'" \o request.collection_id \o "'"
        IN  /\ (~info.can_read /\ ~info.can_write) =>
                   /\ IsError(outcome, 404)
                   /\ outcome.message = "Collection " \o quoted \o " not found"
            /\ (info.can_read /\ ~info.can_write) =>
                   /\ IsError(outcome, 403)
                   /\ outcome.message = "Forbidden to write collection " \o quoted
            /\ (~info.can_read /\ info.can_write) =>
                   /\ IsError(outcome, 403)
                   /\ outcome.message = "Forbidden to read collection " \o quoted
            /\ (info.can_read /\ info.can_write) => outcome = Return(None)

\* The joint check on a collection with neither capability ended in 404.
C6_Witness ==
    /\ op = "permission_to_read_and_write"
    /\ request.collection_id = "c-none"
    /\ IsError(outcome, 404)

\* ---------------------------------------------------------------------- C8
\* C8: get_custom_headers, given the manifest the backend returned: a non-empty
\* manifest sets X-TAXII-Date-Added-First to the minimum and
\* X-TAXII-Date-Added-Last to the maximum date_added, whatever the order of the
\* entries; an empty manifest returns the headers passed in unchanged; a failed
\* manifest query is a ProcessingError with status 400.
C8_ManifestHeaders ==
    op = "get_custom_headers" =>
        IF Raised(request.manifest) THEN IsError(outcome, 400)
        ELSE LET manifest == request.manifest.value[2]
                 dates == {manifest[i].date_added : i \in 1..Len(manifest)}
             IN  IF Len(manifest) = 0 THEN outcome = Return(request.headers)
                 ELSE /\ outcome.kind = "return"
                      /\ DOMAIN outcome.value = DOMAIN request.headers \cup
                            {"X-TAXII-Date-Added-First", "X-TAXII-Date-Added-Last"}
                      /\ \A k \in DOMAIN request.headers :
                            outcome.value[k] = request.headers[k]
                      /\ outcome.value["X-TAXII-Date-Added-First"] = Min(dates)
                      /\ outcome.value["X-TAXII-Date-Added-Last"] = Max(dates)
                      /\ outcome.value["X-TAXII-Date-Added-First"]
                            <= outcome.value["X-TAXII-Date-Added-Last"]

\* Entries dated [2, 1, 3] gave First = 1 and Last = 3.
C8_Witness ==
    /\ op = "get_custom_headers"
    /\ ~Raised(request.manifest)
    /\ Len(request.manifest.value[2]) = 3
    /\ request.manifest.value[2][1].date_added = 2
    /\ request.manifest.value[2][2].date_added = 1
    /\ request.manifest.value[2][3].date_added = 3
    /\ outcome.kind = "return"
    /\ outcome.value["X-TAXII-Date-Added-First"] = 1
    /\ outcome.value["X-TAXII-Date-Added-Last"] = 3

\* ---------------------------------------------------------------------- C3
\* The checks of a list POST, each stated on the request itself.
PostChecksPass(req) ==
    /\ AcceptValid(req.headers, MEDIA_TYPE_TAXII)
    /\ ~Raised(validate_version_parameter_in_content_type_header(req.headers))
    /\ req.api_root \in ApiRoots
    /\ req.collection_id \in DOMAIN Collections
    /\ Collections[req.collection_id].can_write
    /\ LET n == int(Get(req.headers, "Content-Length", ""))
       IN  ~Raised(n) /\ 0 < n.value /\ n.value <= MaxContentLength

\* add_objects is invoked at most once and only after every check has passed;
\* a rejected POST is a 415, 404, 403, 400 or 413 and calls nothing.
PostGuarded(req, cs, out) ==
    /\ Cardinality(CallsOf(cs, "add_objects")) <= 1
    /\ CallsOf(cs, "add_objects") # {} => PostChecksPass(req)
    /\ ~PostChecksPass(req) =>
          /\ out.kind = "ProcessingError"
          /\ out.status \in {415, 404, 403, 400, 413}
          /\ cs = <<>>

\* C3 as stated: in a list POST, add_objects is invoked at most once and only
\* after every check has passed; a POST rejected by a check never calls
\* add_objects, so the stored objects are unchanged; a POST that passes all
\* checks ends with status 202.
C3_PostAsStated ==
    [][op' = "POST objects" =>
        /\ PostGuarded(request', calls', outcome')
        /\ ~PostChecksPass(request') => store' = store
        /\ PostChecksPass(request') =>
              (outcome'.kind = "Response" /\ outcome'.status = 202)]_vars

\* C3, amended: as stated, except that a POST that passes all checks ends with
\* status 202 only when its body parses as JSON; when it does not,
\* request.get_json raises a 400 before add_objects is called and the stored
\* objects are unchanged.
C3_PostGuard ==
    [][op' = "POST objects" =>
        /\ PostGuarded(request', calls', outcome')
        /\ ~PostChecksPass(request') => store' = store
        /\ (PostChecksPass(request') /\ request'.body.json) =>
              /\ outcome'.kind = "Response" /\ outcome'.status = 202
              /\ Cardinality(CallsOf(calls', "add_objects")) = 1
        /\ (PostChecksPass(request') /\ ~request'.body.json) =>
              /\ outcome'.kind = "BadRequest" /\ outcome'.status = 400
              /\ calls' = <<>>
              /\ store' = store]_vars

\* A POST that passed every check stored its bundle and ended with 202.
C3_Witness ==
    /\ op = "POST objects"
    /\ PostChecksPass(request)
    /\ outcome.kind = "Response"
    /\ outcome.status = 202
    /\ Len(calls) = 1
    /\ calls[1].fn = "add_objects"
    /\ store[request.collection_id] = {"o1"}

\* ---------------------------------------------------------------------- C7
\* C7: every request to the list endpoint (GET, POST) or the single-object
\* endpoint (GET, DELETE) ends either in a response with status 200, 202 or 206
\* or in an error carrying one of the statuses 400, 403, 404, 413, 415, 416; no
\* request, including one that names a collection that does not exist, ends in
\* a failure of another kind.
C7_NoUnhandledFailure ==
    op \in {"GET objects", "POST objects", "GET object", "DELETE object"} =>
        \/ outcome.kind = "Response" /\ outcome.status \in {200, 202, 206}
        \/ /\ outcome.kind \in {"ProcessingError", "BadRequest"}
           /\ outcome.status \in {400, 403, 404, 413, 415, 416}

\* ---------------------------------------------------------------------- C9
\* The status of the first check of a list GET that fails, 0 when none does.
FirstFailedGetCheck(req) ==
    IF ~AcceptValid(req.headers, MEDIA_TYPE_STIX) THEN 415
    ELSE IF req.api_root \notin ApiRoots THEN 404
    ELSE IF req.collection_id \notin DOMAIN Collections THEN 404
    ELSE IF ~Collections[req.collection_id].can_read THEN 403
    ELSE IF "Range" \in DOMAIN req.headers /\ ~WellFormedRange(req.headers["Range"]) THEN 400
    ELSE 0

\* C9: a list GET runs its checks in the order Accept version (415), api-root
\* exists, collection exists (404), read permission (403), Range header (400),
\* and fails with the error of the first check that fails.  get_objects and
\* get_object_manifest are invoked only after all checks have passed, and
\* get_object_manifest only after get_objects returned a non-empty object set.
C9_GetCheckOrder ==
    op = "GET objects" =>
        LET failed == FirstFailedGetCheck(request)
        IN  IF failed # 0
            THEN /\ IsError(outcome, failed)
                 /\ calls = <<>>
                 /\ (failed = 404 /\ request.api_root \in ApiRoots) =>
                        outcome.message = "Collection '" \o request.collection_id
                                          \o "' not found"
            ELSE /\ Len(calls) \in {1, 2}
                 /\ calls[1].fn = "get_objects"
                 /\ Len(calls) = 2 =>
                        /\ calls[2].fn = "get_object_manifest"
                        /\ Truthy(calls[1].result[2])

\* A malformed Range header on a collection that may not be read: 403, not 400.
C9_Witness ==
    /\ op = "GET objects"
    /\ request.collection_id = "c-w"
    /\ "Range" \in DOMAIN request.headers
    /\ request.headers["Range"] = "bytes=0-1"
    /\ IsError(outcome, 403)
    /\ calls = <<>>

\* --------------------------------------------------------------------- C10
\* C10: in every successful list GET, get_object_manifest is issued with the
\* same api-root, collection id, query parameters, allowed filter fields and
\* start/end indices as the get_objects query of that request.
C10_ManifestQueryScope ==
    (op = "GET objects" /\ outcome.kind = "Response") =>
        /\ CallsOf(calls, "get_objects") # {}
        /\ CallsOf(calls, "get_object_manifest") # {}
        /\ \A i \in CallsOf(calls, "get_objects"), j \in CallsOf(calls, "get_object_manifest") :
              calls[j].args = calls[i].args

====
